---- MODULE Spec2Model ----
(***************************************************************************)
(* A model of btc_scan.py: the retrying fetcher (safe_fetch), the candle   *)
(* source chain (fetch_binance_klines with its CoinGecko fallback), the    *)
(* auxiliary feeds and the analyze pipeline that turns them into a score.  *)
(*                                                                         *)
(* Numbers.  Python floats are modelled in fixed point:                    *)
(*   signals      in thousandths          (SignalOne = 1.0)                *)
(*   RSI          in hundredths of a point                                 *)
(*   funding rate in millionths                                            *)
(*   volatility   in basis points (1e-4)                                   *)
(* A float is a record [nan, v]: nan = TRUE is NaN, otherwise v is the     *)
(* value.  Python's None is a record [none, v] for the feeds.              *)
(***************************************************************************)
EXTENDS Integers, Sequences, FiniteSets, TLC

VARIABLES
    pc,           \* position of analyze (or of the bare safe_fetch call)
    url,          \* endpoint of the safe_fetch call in progress
    max_retries,  \* safe_fetch: its max_retries argument
    attempt,      \* safe_fetch: the loop variable
    backoff,      \* safe_fetch: next sleep, in time units
    last_exc,     \* safe_fetch: last exception caught
    slept,        \* safe_fetch: the sleeps of this call, in order
    ret,          \* safe_fetch: how the call ended (value returned or exception raised)
    answers,      \* safe_fetch: what each GET of this call was answered with, in order
    gets,         \* GET requests sent to each endpoint during this analyze call
    cgCalls,      \* invocations of fetch_coingecko_klines during this analyze call
    refusedAt,    \* number of primary GETs sent when the first 403/429/451 answer arrived (0: none)
    only429,      \* every answer of the primary so far was an HTTP 429
    primaryEnd,   \* how the primary's fetch ended: "series" (at least MIN_ROWS valid
                  \* candles), "short", "malformed", "raised" ("none": not yet)
    spot,         \* the answer to the spot-price GET
    cgBody,       \* the chart the secondary's fetch returned (NoBody: none)
    fault,        \* the indicator whose computation raised in lines 243-267 ("none": none)
    df,           \* the candle frame analyze works on
    source,       \* which source produced df
    ind,          \* the indicator values of the latest candle
    signals,      \* the signals dict being filled
    feeds,        \* the value each auxiliary feed was seen to deliver (None: none)
    path,         \* which return statement of analyze produced the result
    result,       \* the record analyze returned
    weights,      \* the module's WEIGHTS table, as analyze reads it
    world,        \* what the data sources answer: anything (live), or frozen answers
    calls,        \* invocations of analyze that have returned before this one
    previous,     \* the record the previous invocation returned
    lockfile,     \* the lockfile: whether it exists, and the pid written in it
    proc          \* the processes running run(): position, _running, locals

vars == <<pc, url, max_retries, attempt, backoff, last_exc, slept, ret, answers, gets,
          cgCalls, refusedAt, only429, primaryEnd, spot, cgBody, fault, df, source, ind,
          signals, feeds, path, result, weights, world, calls, previous,
          lockfile, proc>>

fetchVars == <<url, max_retries, attempt, backoff, last_exc, slept, ret, answers>>

\* the settings no operation assigns
configVars == <<weights>>

\* what lives across the invocations of analyze, for the observers
sessionVars == <<world, calls, previous>>

\* the lockfile and the processes of the runner (lines 432-495)
lockVars == <<lockfile, proc>>

----------------------------------------------------------------------------
(* Bounds of the model *)

\* largest max_retries the bare safe_fetch call is tried with
MaxRetriesBound == 4
\* candles returned beyond the slow moving-average window
ExtraRows == 2

----------------------------------------------------------------------------
(* Settings (btc_scan.py lines 21-45) and the literals of the code *)

LIMIT == 100
RSI_PERIOD == 14
MA_FAST == 50
MA_SLOW == 200
VOL_WINDOW == 7
VOLATILITY_WINDOW == 14
MIN_ROWS == 3
CG_MIN_ROWS == 10
BINANCE_RETRIES == 3
COINGECKO_RETRIES == 2
FUNDING_RETRIES == 2
FNG_RETRIES == 2

\* 1.0 and 0.5 of a signal, in thousandths
SignalOne == 1000
Neutral == 500

\* rsi bounds in RSI points, volume_multiplier in tenths, funding_high in
\* millionths, fear/greed bounds in index points
THRESHOLDS ==
    [rsi_overbought |-> 70, rsi_oversold |-> 30, volume_multiplier |-> 15,
     funding_high |-> 500, fear_greed_greedy |-> 75, fear_greed_fearful |-> 25]

\* the weights, in halves (1 is 2, 0.5 is 1)
WEIGHTS ==
    [trend |-> 2, volume |-> 2, rsi |-> 2, funding |-> 1, fear_greed |-> 1,
     volatility |-> 1]

Categories == {"trend", "volume", "rsi", "funding", "fear_greed", "volatility"}

Endpoints == {"binance", "coingecko", "spot", "funding", "fng", "bare"}

----------------------------------------------------------------------------
(* Floats *)

Num(x) == [nan |-> FALSE, v |-> x]
NaN == [nan |-> TRUE, v |-> 0]

\* Python comparison of floats: every comparison with NaN is False
Lt(a, b) == ~a.nan /\ ~b.nan /\ a.v < b.v
Gt(a, b) == ~a.nan /\ ~b.nan /\ a.v > b.v

\* Python's builtin min(a, b) and max(a, b): the first argument is kept unless
\* the second compares strictly below (above) it
PyMin(a, b) == IF Lt(b, a) THEN b ELSE a
PyMax(a, b) == IF Gt(b, a) THEN b ELSE a

----------------------------------------------------------------------------
(* What the network can answer *)

NoExc == [type |-> "none", status |-> 0]
HTTPError(s) == [type |-> "HTTPError", status |-> s]
ConnectionError == [type |-> "ConnectionError", status |-> 0]
JSONDecodeError == [type |-> "JSONDecodeError", status |-> 0]

\* raise_for_status raises for every 4xx and 5xx answer
ErrorStatuses == {403, 429, 451, 500}

Failures == {HTTPError(s) : s \in ErrorStatuses} \cup {ConnectionError, JSONDecodeError}

Body(t, n, p, x) == [type |-> t, n |-> n, profile |-> p, v |-> x]
NoBody == Body("none", 0, "none", 0)

NoRet == [kind |-> "none", body |-> NoBody, exc |-> NoExc]
Returned(b) == [kind |-> "return", body |-> b, exc |-> NoExc]
Raised(e) == [kind |-> "raise", body |-> NoBody, exc |-> e]

TypeError == [type |-> "TypeError", status |-> 0]

----------------------------------------------------------------------------
(* safe_fetch (lines 56-72) *)

\* the call: backoff = 1.0, last_exc = None, attempt = 1 (lines 58-60)
CallSafeFetch(u, m) ==
    /\ url' = u
    /\ max_retries' = m
    /\ attempt' = 1
    /\ backoff' = 1
    /\ last_exc' = NoExc
    /\ slept' = <<>>
    /\ ret' = NoRet
    /\ answers' = <<>>
    /\ pc' = "safe_fetch"

\* whether the except clause of line 65 re-raises: the last attempt has failed
IsLastAttempt(a, m) == a = m

\* (mutant) the backoff grows by one instead of doubling
NextBackoffLinear(b) == b + 1

\* the sleep of line 70 and the doubling of line 71
NextBackoff(b) == b * 2

\* one pass of the loop body whose GET is answered with body b (lines 62-64)
AttemptSucceeds(b) ==
    /\ ret' = Returned(b)
    /\ pc' = "fetched"
    /\ UNCHANGED <<url, max_retries, attempt, backoff, last_exc, slept>>

\* one pass of the loop body whose GET fails with e (lines 65-71)
AttemptFails(e) ==
    /\ last_exc' = e
    /\ IF IsLastAttempt(attempt, max_retries)
          THEN /\ ret' = Raised(e)
               /\ pc' = "fetched"
               /\ UNCHANGED <<attempt, backoff, slept>>
          ELSE /\ slept' = Append(slept, backoff)
               /\ backoff' = NextBackoff(backoff)
               /\ attempt' = attempt + 1
               /\ UNCHANGED <<ret, pc>>
    /\ UNCHANGED <<url, max_retries>>

\* (mutant) 429 is missing from the tuple of line 138
RefusalStatusesWithout429 == {451, 403}

\* the statuses fetch_binance_klines falls back on (line 138)
RefusalStatuses == {451, 403, 429}

\* an answer by which the primary refuses the request: HTTP 403, 429 or 451
IsRefusal(e) == e.type = "HTTPError" /\ e.status \in {403, 429, 451}

\* bookkeeping of observers: the answer to this GET (body b, or failure e), the
\* request count and the first refusal of the primary
CountGet(b, e) ==
    /\ answers' = Append(answers, [body |-> b, exc |-> e])
    /\ gets' = [gets EXCEPT ![url] = @ + 1]
    /\ refusedAt' =
          IF url = "binance" /\ refusedAt = 0 /\ IsRefusal(e)
          THEN gets[url] + 1
          ELSE refusedAt
    /\ only429' = IF url = "binance" THEN only429 /\ e = HTTPError(429) ELSE only429

----------------------------------------------------------------------------
(* The payloads the endpoints can answer with.  A candle payload is named  *)
(* by its number of rows and its profile; Klines builds the rows.          *)

Profiles == {"up", "down", "flat", "zigzag", "rebound", "wild"}

\* numbers of rows a candle endpoint answers with, around every window of the code
PrimaryLengths ==
    {0, MIN_ROWS - 1, MIN_ROWS, VOL_WINDOW, VOLATILITY_WINDOW,
     VOLATILITY_WINDOW + 1, MA_FAST, MA_SLOW + ExtraRows}

\* numbers of hourly buckets the secondary's chart resamples to
SecondaryLengths ==
    {0, CG_MIN_ROWS - 1, CG_MIN_ROWS, VOLATILITY_WINDOW + 1, LIMIT + ExtraRows}

\* the profiles the secondary's charts are drawn from
SecondaryProfiles == {"up", "flat", "wild"}

\* close of row i of an n-row payload (prices are positive)
CloseAt(p, i, n) ==
    CASE p = "up" -> 100 + i
      [] p = "ramp" -> 100 + (300 * (i - 1)) \div (n - 1)
      [] p = "down" -> 1000 - 2 * i
      [] p = "flat" -> 100
      [] p = "steps" -> 100 + i \div 2
      [] p = "zigzag" -> 100 + 5 * (i % 2)
      [] p = "rebound" -> IF i <= n - 30 THEN 1000 - 2 * i
                          ELSE 1000 - 2 * (n - 30) + 3 * (i - (n - 30))
      [] p = "wild" -> 100 + 25 * (i % 2)

\* volume of row i of an n-row payload (volumes are not negative)
VolumeAt(p, i, n) ==
    CASE p = "up" -> IF i = n THEN 3000 ELSE 1000
      [] p = "down" -> IF i = n THEN 500 ELSE 1000
      [] p = "flat" -> 1000
      [] p = "steps" -> 1000
      [] p = "ramp" -> 1000
      [] p = "zigzag" -> 0
      [] p = "rebound" -> 1000 + i
      [] p = "wild" -> IF i = n THEN 1500 ELSE 1000 + 10 * (i % 3)

Klines(n, p) ==
    [i \in 1..n |-> [close_time |-> i, close |-> CloseAt(p, i, n),
                     volume |-> VolumeAt(p, i, n)]]

Malformed == Body("malformed", 0, "none", 0)

\* funding rates in millionths, fear/greed values in index points, spot prices
FundingRates == {-600, -250, 0, 500}
FngValues == {10, 25, 50, 80}
SpotPrices == {65000}

\* a rising market: 300 hourly candles, closes from 100 to 400, volume 1000
RisingMarketBody == Body("klines", 300, "ramp", 0)

\* the parsed JSON a 2xx answer of each endpoint can carry
Bodies(u) ==
    CASE u = "binance" ->
            {Body("klines", n, p, 0) : n \in PrimaryLengths \ {0}, p \in Profiles}
            \cup {Body("klines", 0, "flat", 0), Malformed}
            \cup {RisingMarketBody}
      [] u = "coingecko" ->
            {Body("chart", n, p, 0) : n \in SecondaryLengths \ {0}, p \in SecondaryProfiles}
            \cup {Body("chart", 0, "flat", 0), Malformed}
      [] u = "funding" ->
            {Body("funding", 1, "none", f) : f \in FundingRates}
            \cup {Body("funding", 0, "none", 0), Malformed}
      [] u = "fng" ->
            {Body("fng", 1, "none", g) : g \in FngValues}
            \cup {Body("fng", 0, "none", 0), Malformed}
      [] u = "spot" ->
            {Body("price", 1, "none", x) : x \in SpotPrices} \cup {Malformed}
      [] u = "bare" -> {Body("json", 0, "none", x) : x \in 1..2}

\* the ways a GET to each endpoint can fail
FailuresOf(u) ==
    IF u \in {"binance", "bare"} THEN Failures
    ELSE {HTTPError(429), ConnectionError}

\* the answer to one GET: a parsed body, or a failure
Answer(b, e) == [body |-> b, exc |-> e]

\* the live world: every GET can be answered in every way
Live == [live |-> TRUE, answers |-> [u \in Endpoints |-> <<>>], fault |-> "none"]

\* a frozen world: answers[u][n] is the answer to the n-th GET a call of
\* analyze sends to endpoint u, fault the indicator whose computation raises
\* on the candles of this world
FrozenWorld(a, f) == [live |-> FALSE, answers |-> a, fault |-> f]

Ok(b) == Answer(b, NoExc)
Fail(e) == Answer(NoBody, e)

\* the frozen worlds: the answers to the three GETs of the primary, one answer
\* of the secondary and of the fear/greed feed to both of their GETs, the
\* answers to the two GETs of the funding feed, and one of the spot price
FrozenWorlds ==
    LET series == Body("klines", MA_SLOW + ExtraRows, "up", 0)
        short == Body("klines", MIN_ROWS - 1, "up", 0)
        chart == Body("chart", LIMIT + ExtraRows, "wild", 0)
    IN {FrozenWorld([u \in Endpoints |->
                        CASE u = "binance" -> b
                          [] u = "coingecko" -> <<c, c>>
                          [] u = "spot" -> <<p>>
                          [] u = "funding" -> f
                          [] u = "fng" -> <<g, g>>
                          [] u = "bare" -> <<>>], x) :
           b \in [1..BINANCE_RETRIES -> {Fail(HTTPError(429)), Ok(series), Ok(short)}],
           c \in {Fail(ConnectionError), Ok(chart)},
           p \in {Fail(ConnectionError), Ok(Body("price", 1, "none", 65000))},
           f \in [1..FUNDING_RETRIES ->
                     {Fail(HTTPError(429)), Ok(Body("funding", 1, "none", 500))}],
           g \in {Fail(ConnectionError), Ok(Body("fng", 1, "none", 80)),
                  Ok(Body("fng", 1, "none", 50))},
           x \in {"none", "rsi"}}

\* the worlds of an earlier invocation: every source answers at once, or none does
EarlierWorlds ==
    {FrozenWorld([u \in Endpoints |->
                     CASE u = "binance" -> <<b, b, b>>
                       [] u = "coingecko" -> <<c, c>>
                       [] u = "spot" -> <<c>>
                       [] u = "funding" -> <<f, f>>
                       [] u = "fng" -> <<g, g>>
                       [] u = "bare" -> <<>>], "none") :
        b \in {Ok(Body("klines", VOLATILITY_WINDOW + 1, "wild", 0))},
        c \in {Fail(ConnectionError)},
        f \in {Ok(Body("funding", 1, "none", -600))},
        g \in {Ok(Body("fng", 1, "none", 10))}}
    \cup {FrozenWorld([u \in Endpoints |->
                          IF u = "bare" THEN <<>>
                          ELSE [n \in 1..BINANCE_RETRIES |-> Fail(ConnectionError)]], "none")}

\* the answers the n-th GET of this call to endpoint u can get now
BodiesNow(u, n) ==
    IF world.live THEN Bodies(u)
    ELSE {x.body : x \in {y \in {world.answers[u][n]} : y.exc = NoExc}}

FailuresNow(u, n) ==
    IF world.live THEN FailuresOf(u)
    ELSE {x.exc : x \in {y \in {world.answers[u][n]} : y.exc # NoExc}}

----------------------------------------------------------------------------
(* Frames *)

NoneFrame == [none |-> TRUE, rows |-> <<>>]
Frame(rows) == [none |-> FALSE, rows |-> rows]

\* the last k rows: df.iloc[-k:]
LastRows(rows, k) == SubSeq(rows, Len(rows) - k + 1, Len(rows))

\* fetch_binance_klines lines 122-130: the frame built from the parsed answer
BinanceFrame(b) == Frame(Klines(b.n, b.profile))

\* fetch_coingecko_klines lines 87-112 on the hourly buckets the chart resamples
\* to: None without prices or with fewer than 10 buckets, the last `limit` otherwise
CoinGeckoFrame(b, limit) ==
    LET rows == Klines(b.n, b.profile) IN
    IF b.n = 0 THEN NoneFrame
    ELSE IF Len(rows) < CG_MIN_ROWS THEN NoneFrame
    ELSE IF Len(rows) > limit THEN Frame(LastRows(rows, limit))
    ELSE Frame(rows)

RECURSIVE Insert(_, _)
Insert(row, sorted) ==
    IF sorted = <<>> THEN <<row>>
    ELSE IF row.close_time < Head(sorted).close_time THEN <<row>> \o sorted
    ELSE <<Head(sorted)>> \o Insert(row, Tail(sorted))

RECURSIVE InsertionSort(_, _)
InsertionSort(rows, k) ==
    IF k = 0 THEN <<>> ELSE Insert(rows[k], InsertionSort(rows, k - 1))

IsSorted(rows) ==
    \A i \in 1..(Len(rows) - 1) : rows[i].close_time <= rows[i + 1].close_time

\* df.sort_index (line 244), by close_time
SortIndex(rows) == IF IsSorted(rows) THEN rows ELSE InsertionSort(rows, Len(rows))

----------------------------------------------------------------------------
(* Indicator engine (lines 151-162 and 246-260) *)

\* sum of f[i] for i in lo..hi (halving, to keep the evaluation shallow)
RECURSIVE SumOver(_, _, _)
SumOver(f, lo, hi) ==
    IF lo > hi THEN 0
    ELSE IF lo = hi THEN f[lo]
    ELSE LET mid == (lo + hi) \div 2
         IN SumOver(f, lo, mid) + SumOver(f, mid + 1, hi)

\* averages of prices are kept in 1/PriceUnits of a price unit: both moving
\* average windows divide it, so the means are exact
PriceUnits == MA_SLOW

\* (mutant) the mean of the values there are, before the window is full
smaPartial(series, window) ==
    [i \in DOMAIN series |->
        IF i < window THEN Num((SumOver(series, 1, i) * PriceUnits) \div i)
        ELSE Num((SumOver(series, i - window + 1, i) * PriceUnits) \div window)]

\* series.rolling(window).mean(): undefined until `window` values are there
sma(series, window) ==
    [i \in DOMAIN series |->
        IF i < window THEN NaN
        ELSE Num((SumOver(series, i - window + 1, i) * PriceUnits) \div window)]

\* df["volume"].rolling(7).mean(), in 1/VOL_WINDOW of a volume unit (exact)
RollingVolume(series, window) ==
    [i \in DOMAIN series |->
        IF i < window THEN NaN
        ELSE Num(SumOver(series, i - window + 1, i))]

\* series.diff(): undefined for the first row
Diff(series) ==
    [i \in DOMAIN series |-> IF i = 1 THEN NaN ELSE Num(series[i] - series[i - 1])]

\* delta.clip(lower=0) and -1 * delta.clip(upper=0)
ClipUp(d) == IF d.nan THEN NaN ELSE Num(IF d.v > 0 THEN d.v ELSE 0)
ClipDown(d) == IF d.nan THEN NaN ELSE Num(IF d.v < 0 THEN -d.v ELSE 0)

\* resolution of the smoothed averages: thousandths of a price unit
EwmUnits == SignalOne

\* one step of x.ewm(alpha=1/period, adjust=False).mean(): the average is
\* seeded with the first defined value, then y = ((period-1)*y + x)/period,
\* rounded to the nearest unit (a positive average stays positive, a zero one
\* stays zero)
EwmStep(y, x, period) ==
    IF x.nan THEN y
    ELSE IF y.nan THEN Num(x.v * EwmUnits)
    ELSE Num(((period - 1) * y.v + x.v * EwmUnits + period \div 2) \div period)

\* the steps lo..hi, from the average y
RECURSIVE EwmFrom(_, _, _, _, _)
EwmFrom(y, x, period, lo, hi) ==
    IF lo > hi THEN y
    ELSE LET y1 == EwmStep(y, x[lo], period)
         IN IF y1.nan THEN EwmFrom(NaN, x, period, lo + 1, hi)
            ELSE EwmFrom(Num(y1.v), x, period, lo + 1, hi)

\* the average at row i, computed in runs of RSI_PERIOD rows
RECURSIVE Ewm(_, _, _)
Ewm(x, period, i) ==
    IF i <= RSI_PERIOD THEN EwmFrom(NaN, x, period, 1, i)
    ELSE LET y0 == Ewm(x, period, i - RSI_PERIOD)
         IN IF y0.nan THEN EwmFrom(NaN, x, period, i - RSI_PERIOD + 1, i)
            ELSE EwmFrom(Num(y0.v), x, period, i - RSI_PERIOD + 1, i)

\* (mutant) a division by a zero loss average is left undefined
RsiOfGuarded(ma_up, ma_down) ==
    IF ma_up.nan \/ ma_down.nan THEN NaN
    ELSE IF ma_down.v = 0 THEN NaN
    ELSE Num(100 * 100 - (100 * 100 * ma_down.v) \div (ma_up.v + ma_down.v))

\* rs = ma_up / ma_down and rsi = 100 - 100/(1 + rs), in hundredths of a point.
\* Float division: x/0 is inf for x > 0 (so rsi = 100) and 0/0 is NaN.
RsiOf(ma_up, ma_down) ==
    IF ma_up.nan \/ ma_down.nan THEN NaN
    ELSE IF ma_down.v = 0 THEN (IF ma_up.v = 0 THEN NaN ELSE Num(100 * 100))
    ELSE Num(100 * 100 - (100 * 100 * ma_down.v) \div (ma_up.v + ma_down.v))

compute_rsi(series, period) ==
    LET delta == Diff(series)
        up == [i \in DOMAIN series |-> ClipUp(delta[i])]
        down == [i \in DOMAIN series |-> ClipDown(delta[i])]
    IN [i \in DOMAIN series |-> RsiOf(Ewm(up, period, i), Ewm(down, period, i))]

\* integer square root (Newton)
RECURSIVE SqrtIter(_, _)
SqrtIter(n, x) ==
    LET y == (x + n \div x) \div 2 IN IF y >= x THEN x ELSE SqrtIter(n, y)

ISqrt(n) == IF n <= 0 THEN 0 ELSE SqrtIter(n, n)

\* series.pct_change(), in basis points: undefined for the first row
PctChange(series) ==
    [i \in DOMAIN series |->
        IF i = 1 THEN NaN
        ELSE Num(((series[i] - series[i - 1]) * 10000) \div series[i - 1])]

\* x.rolling(window).std() at row i (sample standard deviation): undefined
\* unless the window holds `window` defined values
RollingStd(x, window, i) ==
    IF i < window \/ (\E j \in (i - window + 1)..i : x[j].nan) THEN NaN
    ELSE LET v == [j \in DOMAIN x |-> x[j].v]
             sq == [j \in DOMAIN x |-> x[j].v * x[j].v]
             s == SumOver(v, i - window + 1, i)
             ss == SumOver(sq, i - window + 1, i)
         IN Num(ISqrt((window * ss - s * s) \div (window * (window - 1))))

\* lines 243-260: the values of the latest row
IndicatorSet(frame) ==
    LET rows == SortIndex(frame.rows)
        n == Len(rows)
        close == [i \in 1..n |-> rows[i].close]
        volume == [i \in 1..n |-> rows[i].volume]
    IN [price |-> rows[n].close,
        ma50 |-> sma(close, MA_FAST)[n],
        ma200 |-> sma(close, MA_SLOW)[n],
        rsi |-> compute_rsi(close, RSI_PERIOD)[n],
        vol |-> rows[n].volume,
        vol7 |-> RollingVolume(volume, VOL_WINDOW)[n],
        volatility_14 |-> RollingStd(PctChange(close), VOLATILITY_WINDOW, n)]

NoIndicators ==
    [price |-> 0, ma50 |-> NaN, ma200 |-> NaN, rsi |-> NaN, vol |-> 0,
     vol7 |-> NaN, volatility_14 |-> NaN]

----------------------------------------------------------------------------
(* Python's None, for the values of the feeds and the price *)

None == [none |-> TRUE, v |-> 0]
Some(x) == [none |-> FALSE, v |-> x]

\* fetch_binance_funding_rate (lines 164-175): the rate of the last entry of a
\* non-empty list, None for an empty list, a malformed answer or a failed fetch
FundingRateOf(r) ==
    IF r.kind = "return" /\ r.body.type = "funding" /\ r.body.n > 0
    THEN Some(r.body.v) ELSE None

\* fetch_fear_and_greed (lines 177-189): the value of the first entry of a
\* non-empty "data" list, None otherwise
FearAndGreedOf(r) ==
    IF r.kind = "return" /\ r.body.type = "fng" /\ r.body.n > 0
    THEN Some(r.body.v) ELSE None

\* (mutant) coingecko_price never hands the price back
CoinGeckoPriceLost(r) == None

\* coingecko_price (lines 199-208): the "usd" price, None on any failure
CoinGeckoPriceOf(r) ==
    IF r.kind = "return" /\ r.body.type = "price" THEN Some(r.body.v) ELSE None

----------------------------------------------------------------------------
(* Signal normalizers (lines 290-387), values in thousandths *)

\* max(0.0, min(1.0, x))
Clamp01(x) == PyMax(Num(0), PyMin(Num(SignalOne), Num(x))).v

\* lines 291-303
TrendSignal(price, ma50, ma200) ==
    LET p == Num(price * PriceUnits) IN
    IF ma50.nan \/ ma200.nan THEN Neutral
    ELSE IF Gt(p, ma50) /\ Gt(p, ma200) THEN SignalOne
    ELSE IF Lt(p, ma50) /\ Lt(p, ma200) THEN 0
    ELSE Neutral

\* (mutant) a ratio of exactly the multiplier is not yet a surge
VolumeSignalStrict(vol, vol7) ==
    IF vol7.nan \/ vol7.v = 0 THEN Neutral
    ELSE LET mult == (vol * VOL_WINDOW * SignalOne) \div vol7.v IN
         IF mult > THRESHOLDS.volume_multiplier * 100 THEN SignalOne
         ELSE IF mult < 800 THEN 0
         ELSE Neutral

\* lines 306-319: mult = vol / vol7 in thousandths (vol7 is in 1/VOL_WINDOW units)
VolumeSignal(vol, vol7) ==
    IF vol7.nan \/ vol7.v = 0 THEN Neutral
    ELSE LET mult == (vol * VOL_WINDOW * SignalOne) \div vol7.v IN
         IF mult >= THRESHOLDS.volume_multiplier * 100 THEN SignalOne
         ELSE IF mult < 800 THEN 0
         ELSE Neutral

\* lines 322-335: rsi in hundredths of a point
RsiSignal(rsi) ==
    LET hi == THRESHOLDS.rsi_overbought * 100
        lo == THRESHOLDS.rsi_oversold * 100
    IN IF rsi.nan THEN Neutral
       ELSE IF rsi.v >= hi THEN 0
       ELSE IF rsi.v <= lo THEN SignalOne
       ELSE Clamp01(SignalOne - ((rsi.v - lo) * SignalOne) \div (hi - lo))

\* (mutant) a missing funding rate is scored 0.0 instead of 0.5
FundingSignalNoneBearish(funding) ==
    LET high == THRESHOLDS.funding_high IN
    IF funding.none THEN 0
    ELSE IF funding.v >= high THEN 0
    ELSE IF funding.v <= -high THEN SignalOne
    ELSE Clamp01(Neutral - (funding.v * SignalOne) \div (2 * high))

\* lines 346-355: funding in millionths
FundingSignal(funding) ==
    LET high == THRESHOLDS.funding_high IN
    IF funding.none THEN Neutral
    ELSE IF funding.v >= high THEN 0
    ELSE IF funding.v <= -high THEN SignalOne
    ELSE Clamp01(Neutral - (funding.v * SignalOne) \div (2 * high))

\* (mutant) greed is scored as bullish and fear as bearish
FearGreedSignalDirect(fg_value) ==
    LET greedy == THRESHOLDS.fear_greed_greedy
        fearful == THRESHOLDS.fear_greed_fearful
    IN IF fg_value.none THEN Neutral
       ELSE IF fg_value.v >= greedy THEN SignalOne
       ELSE IF fg_value.v <= fearful THEN 0
       ELSE Clamp01(((fg_value.v - fearful) * SignalOne) \div (greedy - fearful))

\* lines 367-376
FearGreedSignal(fg_value) ==
    LET greedy == THRESHOLDS.fear_greed_greedy
        fearful == THRESHOLDS.fear_greed_fearful
    IN IF fg_value.none THEN Neutral
       ELSE IF fg_value.v >= greedy THEN 0
       ELSE IF fg_value.v <= fearful THEN SignalOne
       ELSE Clamp01(SignalOne - ((fg_value.v - fearful) * SignalOne) \div (greedy - fearful))

\* the 0.10 ceiling of line 383, in basis points
VolatilityCeiling == Num(SignalOne)

\* (mutant) the min(0.1, ...) of line 383 is missing
VolatilitySignalUnclamped(volatility_14) ==
    SignalOne - (volatility_14.v * SignalOne) \div VolatilityCeiling.v

\* lines 382-387: 1 - min(0.1, volatility_14) / 0.1; the frame's value is a
\* float (NaN when undefined), never None
VolatilitySignal(volatility_14) ==
    LET vol_norm == (PyMin(VolatilityCeiling, volatility_14).v * SignalOne)
                        \div VolatilityCeiling.v
    IN SignalOne - vol_norm

----------------------------------------------------------------------------
(* Score and verdict (lines 389-402) *)

\* sum(w.values())
RECURSIVE SumWeights(_, _)
SumWeights(w, keys) ==
    IF keys = {} THEN 0
    ELSE LET k == CHOOSE x \in keys : TRUE IN w[k] + SumWeights(w, keys \ {k})

\* (mutant) a signal at the neutral default adds nothing to the sum
SignalGetDropNeutral(sig, k) ==
    IF k \in DOMAIN sig /\ sig[k] # Neutral THEN sig[k] ELSE 0

\* signals.get(k, 0.5)
SignalGet(sig, k) == IF k \in DOMAIN sig THEN sig[k] ELSE Neutral

\* the loop of lines 392-393 over the items of the weight table w
RECURSIVE WeightedSum(_, _, _)
WeightedSum(sig, w, keys) ==
    IF keys = {} THEN 0
    ELSE LET k == CHOOSE x \in keys : TRUE
         IN SignalGet(sig, k) * w[k] + WeightedSum(sig, w, keys \ {k})

\* a fraction num/den with a positive denominator
Fraction(num, den) == IF den < 0 THEN [num |-> -num, den |-> -den] ELSE [num |-> num, den |-> den]

\* (mutant) the sum is divided by the number of weights, not by their total
AggregateOverCount(sig, w) ==
    IF DOMAIN w # {}
    THEN Fraction(WeightedSum(sig, w, DOMAIN w), 2 * Cardinality(DOMAIN w) * SignalOne)
    ELSE Fraction(Neutral, SignalOne)

\* lines 390-394 for the weight table w: the weighted sum over the total
\* weight, 0.5 when the total weight is zero
Aggregate(sig, w) ==
    LET total_weight == SumWeights(w, DOMAIN w) IN
    IF total_weight # 0
    THEN Fraction(WeightedSum(sig, w, DOMAIN w), total_weight * SignalOne)
    ELSE Fraction(Neutral, SignalOne)

\* (mutant) the score is smoothed with the score of the previous invocation
ScoreSmoothed(sig) ==
    LET a == Aggregate(sig, weights)
        b == previous.score
    IN Fraction((a.num * SignalOne) \div a.den + (b.num * SignalOne) \div b.den,
                2 * SignalOne)

\* the score of analyze: the table is the module's WEIGHTS
Score(sig) == Aggregate(sig, weights)

\* the literal 0.5 of the degraded records
HalfScore == [num |-> Neutral, den |-> SignalOne]

\* (mutant) the BUY boundary is exclusive
VerdictStrict(score) ==
    IF score.num * 10 > 6 * score.den THEN "BUY (probabilistic)"
    ELSE IF score.num * 10 <= 4 * score.den THEN "SELL (probabilistic)"
    ELSE "NEUTRAL / WAIT"

\* lines 397-402: score >= 0.6, score <= 0.4
Verdict(score) ==
    IF score.num * 10 >= 6 * score.den THEN "BUY (probabilistic)"
    ELSE IF score.num * 10 <= 4 * score.den THEN "SELL (probabilistic)"
    ELSE "NEUTRAL / WAIT"

AllNeutral == [k \in Categories |-> Neutral]

\* the degraded records of lines 222-239 and 274-285
Degraded(price, verdict) ==
    [price |-> price, score |-> HalfScore, verdict |-> verdict, signals |-> AllNeutral]

NoResult == [price |-> None, score |-> HalfScore, verdict |-> "", signals |-> <<>>]

----------------------------------------------------------------------------
(* The state after construction: analyze is about to be called *)

fetchIdle ==
    /\ url = "none"
    /\ max_retries = 0
    /\ attempt = 0
    /\ backoff = 0
    /\ last_exc = NoExc
    /\ slept = <<>>
    /\ ret = NoRet
    /\ answers = <<>>

observersInit ==
    /\ gets = [u \in Endpoints |-> 0]
    /\ cgCalls = 0
    /\ refusedAt = 0
    /\ only429 = TRUE
    /\ primaryEnd = "none"
    /\ spot = [body |-> NoBody, exc |-> NoExc]
    /\ cgBody = NoBody
    /\ fault = "none"

analyzeInit ==
    /\ df = NoneFrame
    /\ source = "none"
    /\ ind = NoIndicators
    /\ signals = <<>>
    /\ feeds = [funding |-> None, fear_greed |-> None]
    /\ path = "none"
    /\ result = NoResult

\* lines 38-45
configInit == weights = WEIGHTS

\* processes that can run the runner at the same time; the pid of process p is p
MaxProcs == 2
Procs == 1..MaxProcs

\* the poll interval in seconds (POLL_SECS, line 433, is 3600 by default)
PollSecs == 2

\* the lockfile: absent, or holding a text: nothing yet ("empty"), a pid, or
\* something that is no number ("garbage")
NoLockfile == [exists |-> FALSE, kind |-> "none", pid |-> 0]
EmptyLockfile == [exists |-> TRUE, kind |-> "empty", pid |-> 0]
GarbageLockfile == [exists |-> TRUE, kind |-> "garbage", pid |-> 0]
PidLockfile(n) == [exists |-> TRUE, kind |-> "pid", pid |-> n]

\* the pid of a process that is gone
DeadPid == MaxProcs + 1

\* a process that has not called run yet.  For the observers: acquired is
\* what acquire_lock returned ("none" until it returns), removed whether the
\* process has called os.remove on the lockfile, called whether it has called
\* analyze, last how the analyze/send cycle of the current pass of the loop ended
IdleProc ==
    [pc |-> "idle", running |-> TRUE, pid |-> 0, slept |-> 0, late |-> 0,
     acquired |-> "none", removed |-> FALSE, called |-> FALSE, last |-> "none"]

\* no runner has started and there is no lockfile
lockInit ==
    /\ lockfile = NoLockfile
    /\ proc = [p \in Procs |-> IdleProc]

\* the first invocation, in the live world
sessionInit ==
    /\ world = Live
    /\ calls = 0
    /\ previous = NoResult

Init ==
    /\ pc = "start"
    /\ fetchIdle
    /\ observersInit
    /\ analyzeInit
    /\ configInit
    /\ sessionInit
    /\ lockInit

\* safe_fetch returns to its caller: its locals are gone
ReturnFromFetch ==
    /\ url' = "none"
    /\ max_retries' = 0
    /\ attempt' = 0
    /\ backoff' = 0
    /\ last_exc' = NoExc
    /\ slept' = <<>>
    /\ ret' = NoRet
    /\ answers' = <<>>

observerVars == <<gets, cgCalls, refusedAt, only429, primaryEnd, spot, cgBody, fault>>
analyzeVars == <<df, source, ind, signals, feeds, path, result>>

----------------------------------------------------------------------------
(* One pass of the safe_fetch loop (lines 60-71) *)

SafeFetchAttempt ==
    /\ pc = "safe_fetch"
    /\ attempt <= max_retries
    /\ \/ \E b \in BodiesNow(url, attempt) : AttemptSucceeds(b) /\ CountGet(b, NoExc)
       \/ \E e \in FailuresNow(url, attempt) : AttemptFails(e) /\ CountGet(NoBody, e)
    /\ UNCHANGED <<cgCalls, primaryEnd, spot, cgBody, fault>>
    /\ UNCHANGED analyzeVars
    /\ UNCHANGED configVars
    /\ UNCHANGED sessionVars
    /\ UNCHANGED lockVars

\* the loop ran no pass at all (max_retries = 0): line 72 raises last_exc, which
\* is None, and Python answers with a TypeError
SafeFetchLoopOver ==
    /\ pc = "safe_fetch"
    /\ attempt > max_retries
    /\ ret' = Raised(IF last_exc = NoExc THEN TypeError ELSE last_exc)
    /\ pc' = "fetched"
    /\ UNCHANGED <<url, max_retries, attempt, backoff, last_exc, slept, answers>>
    /\ UNCHANGED observerVars
    /\ UNCHANGED analyzeVars
    /\ UNCHANGED configVars
    /\ UNCHANGED sessionVars
    /\ UNCHANGED lockVars

----------------------------------------------------------------------------
(* fetch_binance_klines (lines 117-149) as called by analyze (lines 211-216) *)

\* line 213: analyze calls fetch_binance_klines, which calls safe_fetch (line 121)
AnalyzeStart ==
    /\ pc = "start"
    /\ CallSafeFetch("binance", BINANCE_RETRIES)
    /\ UNCHANGED observerVars
    /\ UNCHANGED analyzeVars
    /\ UNCHANGED configVars
    /\ UNCHANGED sessionVars
    /\ UNCHANGED lockVars

\* the parsed answer is a list of kline rows the frame can be built from
IsKlines(r) == r.kind = "return" /\ r.body.type = "klines"

\* (mutant) the fallback is consulted whatever the primary answered
FallbackAlways(r) == TRUE

\* which ends of the try block of lines 120-130 reach a call of
\* fetch_coingecko_klines: an HTTPError with status 451, 403 or 429 (line 138),
\* or any other exception, also one raised while building the frame (line 144)
FallbackWanted(r) ==
    \/ r.kind = "return" /\ ~IsKlines(r)
    \/ r.kind = "raise" /\ r.exc.type = "HTTPError" /\ r.exc.status \in RefusalStatuses
    \/ r.kind = "raise" /\ r.exc.type # "HTTPError"

\* line 214: the rows analyze needs
EnoughRows(frame) == ~frame.none /\ Len(frame.rows) >= MIN_ROWS

\* lines 213-216: analyze receives the frame and checks it
AnalyzeReceives(frame, src) ==
    /\ df' = frame
    /\ source' = src
    /\ pc' = IF EnoughRows(frame) THEN "indicators" ELSE "fallback_price"
    /\ ReturnFromFetch
    /\ UNCHANGED <<ind, signals, feeds, path, result>>

\* fetch_binance_klines raises; analyze's except clause (line 216) takes over
AnalyzeCatches ==
    /\ pc' = "fallback_price"
    /\ ReturnFromFetch
    /\ UNCHANGED analyzeVars

\* how the primary's fetch ended, for the observers
PrimaryEnd(r) ==
    IF r.kind = "raise" THEN "raised"
    ELSE IF r.body.type # "klines" THEN "malformed"
    ELSE IF r.body.n >= 3 THEN "series"
    ELSE "short"

BinanceFetched ==
    /\ pc = "fetched"
    /\ url = "binance"
    /\ primaryEnd' = PrimaryEnd(ret)
    /\ IF FallbackWanted(ret)
          THEN /\ cgCalls' = cgCalls + 1
               /\ CallSafeFetch("coingecko", COINGECKO_RETRIES)
               /\ UNCHANGED analyzeVars
          ELSE /\ IF IsKlines(ret)
                     THEN AnalyzeReceives(BinanceFrame(ret.body), "binance")
                     ELSE AnalyzeCatches
               /\ UNCHANGED cgCalls
    /\ UNCHANGED <<gets, refusedAt, only429, spot, cgBody, fault>>
    /\ UNCHANGED configVars
    /\ UNCHANGED sessionVars
    /\ UNCHANGED lockVars

\* the parsed answer is a market chart
IsChart(r) == r.kind = "return" /\ r.body.type = "chart"

\* fetch_coingecko_klines returns (lines 86-115); fetch_binance_klines hands the
\* frame on (lines 141-142, 147-148) or re-raises (lines 143, 149)
CoinGeckoFetched ==
    /\ pc = "fetched"
    /\ url = "coingecko"
    /\ cgBody' = IF IsChart(ret) THEN ret.body ELSE NoBody
    /\ LET df_f == IF IsChart(ret) THEN CoinGeckoFrame(ret.body, LIMIT) ELSE NoneFrame
       IN IF ~df_f.none THEN AnalyzeReceives(df_f, "coingecko") ELSE AnalyzeCatches
    /\ UNCHANGED <<gets, cgCalls, refusedAt, only429, primaryEnd, spot, fault>>
    /\ UNCHANGED configVars
    /\ UNCHANGED sessionVars
    /\ UNCHANGED lockVars

----------------------------------------------------------------------------
(* The degraded records (lines 216-239 and 269-285) *)

\* the verdict texts of the four degraded records
DegradedVerdict(at, price_fb) ==
    IF at = "fallback_price"
    THEN (IF price_fb.none THEN "NEUTRAL / WAIT (no price)"
          ELSE "NEUTRAL / WAIT (fallback price)")
    ELSE (IF price_fb.none THEN "NEUTRAL / WAIT (error)"
          ELSE "NEUTRAL / WAIT (post-fetch fallback)")

\* coingecko_price: one GET without retry, then the degraded record is returned
ReturnDegraded(r) ==
    LET price_fb == CoinGeckoPriceOf(r) IN
    /\ result' = Degraded(price_fb, DegradedVerdict(pc, price_fb))
    /\ path' = pc
    /\ pc' = "done"
    /\ gets' = [gets EXCEPT !["spot"] = @ + 1]
    /\ spot' = [body |-> r.body, exc |-> r.exc]
    /\ UNCHANGED <<df, source, ind, signals, feeds>>

CoinGeckoPrice ==
    /\ pc \in {"fallback_price", "postfetch_price"}
    /\ \/ \E b \in BodiesNow("spot", 1) : ReturnDegraded(Returned(b))
       \/ \E e \in FailuresNow("spot", 1) : ReturnDegraded(Raised(e))
    /\ UNCHANGED fetchVars
    /\ UNCHANGED <<cgCalls, refusedAt, only429, primaryEnd, cgBody, fault>>
    /\ UNCHANGED configVars
    /\ UNCHANGED sessionVars
    /\ UNCHANGED lockVars

----------------------------------------------------------------------------
(* Indicators and the six signals (lines 242-387) *)

IndicatorFaults == {"trend", "volume", "rsi", "volatility"}

\* where an exception raised in the try block of lines 242-267 lands: the
\* except clause of line 269 covers the whole block
AfterIndicators(f) == IF f = "none" THEN "trend" ELSE "postfetch_price"

\* whether the computation raises is a matter of the candles: open in the
\* live world, settled in a frozen one
FaultsNow == IF world.live THEN {"none"} \cup IndicatorFaults ELSE {world.fault}

ComputeIndicators ==
    /\ pc = "indicators"
    /\ \E f \in FaultsNow :
          /\ fault' = f
          /\ pc' = AfterIndicators(f)
          /\ ind' = IF f = "none" THEN IndicatorSet(df) ELSE ind
    /\ UNCHANGED fetchVars
    /\ UNCHANGED <<gets, cgCalls, refusedAt, only429, primaryEnd, spot, cgBody>>
    /\ UNCHANGED <<df, source, signals, feeds, path, result>>
    /\ UNCHANGED configVars
    /\ UNCHANGED sessionVars
    /\ UNCHANGED lockVars

\* signals[k] = v
SetSignal(k, v) == signals' = (k :> v) @@ signals

PureStep(next, k, v) ==
    /\ SetSignal(k, v)
    /\ pc' = next
    /\ UNCHANGED fetchVars
    /\ UNCHANGED observerVars
    /\ UNCHANGED <<df, source, ind, feeds, path, result>>
    /\ UNCHANGED configVars
    /\ UNCHANGED sessionVars
    /\ UNCHANGED lockVars

TrendStep ==
    /\ pc = "trend"
    /\ PureStep("volume", "trend", TrendSignal(ind.price, ind.ma50, ind.ma200))

VolumeStep ==
    /\ pc = "volume"
    /\ PureStep("rsi", "volume", VolumeSignal(ind.vol, ind.vol7))

RsiStep ==
    /\ pc = "rsi"
    /\ PureStep("funding", "rsi", RsiSignal(ind.rsi))

\* for the observers: the value a feed's fetch delivered, None when the fetch
\* raised, or answered with nothing or with something unusable
DeliveredBy(r) ==
    IF r.kind = "raise" \/ r.body.type = "malformed" \/ r.body.n = 0
    THEN None ELSE Some(r.body.v)

\* (mutant) the funding feed is given one more attempt
FundingStartOneMore ==
    /\ pc = "funding"
    /\ CallSafeFetch("funding", FUNDING_RETRIES + 1)
    /\ UNCHANGED observerVars
    /\ UNCHANGED analyzeVars
    /\ UNCHANGED configVars
    /\ UNCHANGED sessionVars
    /\ UNCHANGED lockVars

\* line 341: fetch_binance_funding_rate calls safe_fetch (line 168)
FundingStart ==
    /\ pc = "funding"
    /\ CallSafeFetch("funding", FUNDING_RETRIES)
    /\ UNCHANGED observerVars
    /\ UNCHANGED analyzeVars
    /\ UNCHANGED configVars
    /\ UNCHANGED sessionVars
    /\ UNCHANGED lockVars

FundingFetched ==
    /\ pc = "fetched"
    /\ url = "funding"
    /\ feeds' = [feeds EXCEPT !.funding = DeliveredBy(ret)]
    /\ LET funding == FundingRateOf(ret) IN SetSignal("funding", FundingSignal(funding))
    /\ pc' = "fear_greed"
    /\ ReturnFromFetch
    /\ UNCHANGED observerVars
    /\ UNCHANGED <<df, source, ind, path, result>>
    /\ UNCHANGED configVars
    /\ UNCHANGED sessionVars
    /\ UNCHANGED lockVars

\* line 363: fetch_fear_and_greed calls safe_fetch (line 180)
FearGreedStart ==
    /\ pc = "fear_greed"
    /\ CallSafeFetch("fng", FNG_RETRIES)
    /\ UNCHANGED observerVars
    /\ UNCHANGED analyzeVars
    /\ UNCHANGED configVars
    /\ UNCHANGED sessionVars
    /\ UNCHANGED lockVars

FearGreedFetched ==
    /\ pc = "fetched"
    /\ url = "fng"
    /\ feeds' = [feeds EXCEPT !.fear_greed = DeliveredBy(ret)]
    /\ LET fg_value == FearAndGreedOf(ret) IN
          SetSignal("fear_greed", FearGreedSignal(fg_value))
    /\ pc' = "volatility"
    /\ ReturnFromFetch
    /\ UNCHANGED observerVars
    /\ UNCHANGED <<df, source, ind, path, result>>
    /\ UNCHANGED configVars
    /\ UNCHANGED sessionVars
    /\ UNCHANGED lockVars

VolatilityStep ==
    /\ pc = "volatility"
    /\ PureStep("score", "volatility", VolatilitySignal(ind.volatility_14))

\* lines 389-413: score, verdict and the returned record
ReturnScored ==
    /\ pc = "score"
    /\ LET score == Score(signals) IN
          result' = [price |-> Some(ind.price), score |-> score,
                     verdict |-> Verdict(score), signals |-> signals]
    /\ path' = "scored"
    /\ pc' = "done"
    /\ UNCHANGED fetchVars
    /\ UNCHANGED observerVars
    /\ UNCHANGED <<df, source, ind, signals, feeds>>
    /\ UNCHANGED configVars
    /\ UNCHANGED sessionVars
    /\ UNCHANGED lockVars

----------------------------------------------------------------------------
(* Specifications *)

Next ==
    \/ AnalyzeStart
    \/ SafeFetchAttempt
    \/ BinanceFetched
    \/ CoinGeckoFetched
    \/ CoinGeckoPrice
    \/ ComputeIndicators
    \/ TrendStep
    \/ VolumeStep
    \/ RsiStep
    \/ FundingStart
    \/ FundingFetched
    \/ FearGreedStart
    \/ FearGreedFetched
    \/ VolatilityStep
    \/ ReturnScored

Spec == Init /\ [][Next]_vars

\* analyze is sequential code: every GET ends (answer, error or timeout) and
\* every sleep of safe_fetch ends, so the step that is enabled is taken
FairSpec == Spec /\ WF_vars(Next)

\* safe_fetch on its own, called with any max_retries up to the bound
InitFetch ==
    /\ pc = "safe_fetch"
    /\ url = "bare"
    /\ max_retries \in 0..MaxRetriesBound
    /\ attempt = 1
    /\ backoff = 1
    /\ last_exc = NoExc
    /\ slept = <<>>
    /\ ret = NoRet
    /\ answers = <<>>
    /\ observersInit
    /\ analyzeInit
    /\ configInit
    /\ sessionInit
    /\ lockInit

NextFetch ==
    \/ SafeFetchAttempt
    \/ SafeFetchLoopOver

SpecFetch == InitFetch /\ [][NextFetch]_vars

\* a GET ends (answer, error or timeout) and a sleep ends: the loop goes on
FairSpecFetch == SpecFetch /\ WF_vars(NextFetch)

\* run's loop calls analyze again (line 480): a new frame of locals; nothing
\* but the module's settings is carried over.  The observers start afresh,
\* keep the record just returned, and the world the sources are in is frozen
\* from the second invocation on.
AnalyzeAgain ==
    /\ pc = "done"
    /\ calls < 2
    /\ calls' = calls + 1
    /\ previous' = result
    /\ IF calls = 0 THEN world' \in FrozenWorlds ELSE world' = world
    /\ pc' = "start"
    /\ gets' = [u \in Endpoints |-> 0]
    /\ cgCalls' = 0
    /\ refusedAt' = 0
    /\ only429' = TRUE
    /\ primaryEnd' = "none"
    /\ spot' = [body |-> NoBody, exc |-> NoExc]
    /\ cgBody' = NoBody
    /\ fault' = "none"
    /\ df' = NoneFrame
    /\ source' = "none"
    /\ ind' = NoIndicators
    /\ signals' = <<>>
    /\ feeds' = [funding |-> None, fear_greed |-> None]
    /\ path' = "none"
    /\ result' = NoResult
    /\ UNCHANGED fetchVars
    /\ UNCHANGED configVars
    /\ UNCHANGED lockVars

\* three invocations in a row: the first in one of the earlier worlds, the
\* second and the third in one and the same frozen world
InitTwice ==
    /\ pc = "start"
    /\ fetchIdle
    /\ observersInit
    /\ analyzeInit
    /\ configInit
    /\ world \in EarlierWorlds
    /\ calls = 0
    /\ previous = NoResult
    /\ lockInit

NextTwice ==
    \/ Next
    \/ AnalyzeAgain

SpecTwice == InitTwice /\ [][NextTwice]_vars

\* values a signal can take: trend and volume are 0, 0.5 or 1; the others
\* are any value of [0,1], of which a few are taken
SignalMaps ==
    {m \in [Categories -> {0, 200, Neutral, SignalOne}] :
        m["trend"] # 200 /\ m["volume"] # 200}

\* weight tables (in halves) the module could be configured with: the shipped
\* one, all zero, uniform, a single category, opposite weights of total zero,
\* a negative total, and one with a key that is no category
WeightTables ==
    {WEIGHTS,
     [k \in Categories |-> 0],
     [k \in Categories |-> 2],
     [k \in {"trend"} |-> 2],
     [k \in Categories |-> IF k = "trend" THEN 2 ELSE IF k = "rsi" THEN -2 ELSE 0],
     [k \in Categories |-> IF k = "funding" THEN -3 ELSE 0],
     [k \in Categories \cup {"momentum"} |-> IF k = "momentum" THEN 4 ELSE WEIGHTS[k]]}

\* the return statements of analyze on their own (lines 219-239, 271-285 and
\* 389-413): analyze is about to aggregate any signals map under any weight
\* table, or is in one of its two except clauses
InitAggregate ==
    /\ \/ pc = "score" /\ signals \in SignalMaps
       \/ pc \in {"fallback_price", "postfetch_price"} /\ signals = <<>>
    /\ weights \in WeightTables
    /\ sessionInit
    /\ lockInit
    /\ fetchIdle
    /\ observersInit
    /\ df = NoneFrame
    /\ source = "none"
    /\ ind = NoIndicators
    /\ feeds = [funding |-> None, fear_greed |-> None]
    /\ path = "none"
    /\ result = NoResult

NextAggregate ==
    \/ ReturnScored
    \/ CoinGeckoPrice

SpecAggregate == InitAggregate /\ [][NextAggregate]_vars

----------------------------------------------------------------------------
(* The signal steps of analyze on their own (lines 242-413): from any of a *)
(* set of indicator values, or from the indicators of any of a set of      *)
(* series, with the feeds in a frozen world                                *)

\* indicator values of a latest candle: the volume against a 7-period mean of
\* 1000 (vol7 is the sum of the seven), an undefined or zero mean, RSI values
\* and volatilities; the zero mean is that of seven zero volumes
IndicatorInputs ==
    {i \in [price : {100}, ma50 : {NaN}, ma200 : {NaN},
             rsi : {NaN, Num(3000), Num(5000), Num(7000)},
             vol : {0, 799, 800, 801, 1000, 1499, 1500, 1501, 3000},
             vol7 : {NaN, Num(0), Num(7000)},
             volatility_14 : {NaN, Num(0), Num(500), Num(1000), Num(2000)}] :
        i.vol7 = Num(0) => i.vol = 0}

\* candle series analyze can hold when it computes the indicators
SeriesInputs ==
    {Frame(Klines(n, p)) :
        n \in {MIN_ROWS, RSI_PERIOD, RSI_PERIOD + 1, RSI_PERIOD + 2, MA_FAST},
        p \in {"up", "down", "flat", "steps", "ramp", "zigzag", "rebound"}}

\* the frozen worlds in which the candles came from the primary at once
SignalWorlds ==
    {w \in FrozenWorlds :
        /\ \A n \in 1..BINANCE_RETRIES : w.answers["binance"][n].body.n >= MIN_ROWS
        /\ w.answers["coingecko"][1].exc # NoExc
        /\ w.answers["spot"][1].exc # NoExc
        /\ w.fault = "none"}

\* RSI values of a latest candle at, around and between the two thresholds
RsiInputs ==
    {[price |-> 100, ma50 |-> NaN, ma200 |-> NaN, rsi |-> r, vol |-> 1000,
      vol7 |-> Num(7000), volatility_14 |-> NaN] :
        r \in {NaN} \cup {Num(x) : x \in {0, 2999, 3000, 3001, 4000, 5000, 6000,
                                         6999, 7000, 10000}}}

\* frozen worlds whose funding rate and fear/greed value are at, around and
\* between their thresholds (or whose feed fails)
FeedWorlds ==
    LET series == Body("klines", MA_SLOW + ExtraRows, "up", 0)
        down == Fail(ConnectionError)
    IN {FrozenWorld([u \in Endpoints |->
                        CASE u = "binance" -> <<Ok(series), Ok(series), Ok(series)>>
                          [] u = "coingecko" -> <<down, down>>
                          [] u = "spot" -> <<down>>
                          [] u = "funding" -> <<f, f>>
                          [] u = "fng" -> <<g, g>>
                          [] u = "bare" -> <<>>], "none") :
           f \in {Fail(HTTPError(429))}
                 \cup {Ok(Body("funding", 1, "none", r)) :
                          r \in {-600, -500, -499, -250, 0, 250, 499, 500, 600}},
           g \in {down}
                 \cup {Ok(Body("fng", 1, "none", v)) :
                          v \in {10, 25, 26, 40, 50, 74, 75, 80}}}

InitSignals ==
    /\ \/ pc = "indicators" /\ df \in SeriesInputs /\ ind = NoIndicators
          /\ world \in SignalWorlds
       \/ pc = "trend" /\ df = NoneFrame /\ ind \in IndicatorInputs
          /\ world \in SignalWorlds
       \/ pc = "trend" /\ df = NoneFrame /\ ind \in RsiInputs
          /\ world \in FeedWorlds
    /\ calls = 0
    /\ previous = NoResult
    /\ fetchIdle
    /\ observersInit
    /\ source = "binance"
    /\ signals = <<>>
    /\ feeds = [funding |-> None, fear_greed |-> None]
    /\ path = "none"
    /\ result = NoResult
    /\ configInit
    /\ lockInit

NextSignals ==
    \/ ComputeIndicators
    \/ TrendStep
    \/ VolumeStep
    \/ RsiStep
    \/ FundingStart
    \/ SafeFetchAttempt
    \/ FundingFetched
    \/ FearGreedStart
    \/ FearGreedFetched
    \/ VolatilityStep
    \/ ReturnScored

SpecSignals == InitSignals /\ [][NextSignals]_vars

----------------------------------------------------------------------------
(* The runner: acquire_lock, run and release_lock (lines 432-495), one     *)
(* process per element of Procs, their steps interleaved                   *)

\* everything the runner's steps leave alone
analyzeSide == <<pc, fetchVars, observerVars, analyzeVars, configVars, sessionVars>>

\* process p goes to position at
Goto(p, at) == proc' = [proc EXCEPT ![p].pc = at]

\* os.kill(pid, 0) succeeds: the process exists; pid 0 is the caller's own
\* process group
PidAlive(n) == n = 0 \/ (n \in Procs /\ proc[n].pc \notin {"idle", "returned"})

\* the process is launched and run() calls acquire_lock (line 475)
RunStart(p) ==
    /\ proc[p].pc = "idle"
    /\ Goto(p, "exists")
    /\ UNCHANGED lockfile
    /\ UNCHANGED analyzeSide

\* line 445: os.path.exists(LOCKFILE)
AcquireExists(p) ==
    /\ proc[p].pc = "exists"
    /\ Goto(p, IF lockfile.exists THEN "read" ELSE "write")
    /\ UNCHANGED lockfile
    /\ UNCHANGED analyzeSide

\* lines 447-448: pid = int(f.read().strip() or 0); a missing file or a text
\* that is no number raises, which the except clause of line 456 catches
AcquireRead(p) ==
    /\ proc[p].pc = "read"
    /\ IF ~lockfile.exists \/ lockfile.kind = "garbage"
          THEN Goto(p, "cleanup")
          ELSE proc' = [proc EXCEPT ![p].pc = "probe", ![p].pid = lockfile.pid]
    /\ UNCHANGED lockfile
    /\ UNCHANGED analyzeSide

\* lines 449-454: os.kill(pid, 0); acquire_lock returns False for a live pid
\* and run returns (line 476)
AcquireProbe(p) ==
    /\ proc[p].pc = "probe"
    /\ IF PidAlive(proc[p].pid)
          THEN proc' = [proc EXCEPT ![p].pc = "returned", ![p].acquired = "false"]
          ELSE Goto(p, "remove_stale")
    /\ UNCHANGED lockfile
    /\ UNCHANGED analyzeSide

\* line 455: os.remove(LOCKFILE); if the file is gone the error reaches the
\* except clause of line 456
AcquireRemoveStale(p) ==
    /\ proc[p].pc = "remove_stale"
    /\ proc' = [proc EXCEPT ![p].pc = IF lockfile.exists THEN "write" ELSE "cleanup",
                            ![p].removed = TRUE]
    /\ lockfile' = NoLockfile
    /\ UNCHANGED analyzeSide

\* lines 456-460: os.remove(LOCKFILE), errors ignored
AcquireCleanup(p) ==
    /\ proc[p].pc = "cleanup"
    /\ proc' = [proc EXCEPT ![p].pc = "write", ![p].removed = TRUE]
    /\ lockfile' = NoLockfile
    /\ UNCHANGED analyzeSide

\* line 461: open(LOCKFILE, "w") creates the file or empties it
AcquireOpen(p) ==
    /\ proc[p].pc = "write"
    /\ Goto(p, "write_pid")
    /\ lockfile' = EmptyLockfile
    /\ UNCHANGED analyzeSide

\* lines 462-464: the pid is written as the file is closed; acquire_lock
\* returns True and run enters its loop
AcquireWrite(p) ==
    /\ proc[p].pc = "write_pid"
    /\ proc' = [proc EXCEPT ![p].pc = "loop", ![p].acquired = "true"]
    /\ lockfile' = PidLockfile(p)
    /\ UNCHANGED analyzeSide

\* line 479: while _running
LoopCheck(p) ==
    /\ proc[p].pc = "loop"
    /\ proc' = [proc EXCEPT ![p].pc = IF proc[p].running THEN "analyze" ELSE "release",
                            ![p].last = "none"]
    /\ UNCHANGED lockfile
    /\ UNCHANGED analyzeSide

\* lines 480-481: the loop body is entered and analyze is called
AnalyzeCall(p) ==
    /\ proc[p].pc = "analyze"
    /\ proc' = [proc EXCEPT ![p].pc = "in_analyze", ![p].called = TRUE]
    /\ UNCHANGED lockfile
    /\ UNCHANGED analyzeSide

\* how the cycle of lines 481-485 can end: analyze returned its record and the
\* message was sent, analyze raised, or the sending raised
CycleOutcomes == {"sent", "analyze_raised", "send_raised"}

\* (mutant) an exception of the cycle leaves the loop for the finally clause
AfterCyclePropagating(o) == IF o = "sent" THEN "sleep_check" ELSE "release"

\* lines 486-489: `except Exception` logs the exception; the pass goes on at
\* the sleep loop whatever the outcome
AfterCycle(o) == "sleep_check"

\* lines 481-489: the analyze/send cycle ends, then slept = 0
AnalyzeCycle(p) ==
    /\ proc[p].pc = "in_analyze"
    /\ \E o \in CycleOutcomes :
          proc' = [proc EXCEPT ![p].pc = AfterCycle(o), ![p].slept = 0, ![p].last = o]
    /\ UNCHANGED lockfile
    /\ UNCHANGED analyzeSide

\* (mutant) the sleep loop does not look at _running
KeepsSleepingDeaf(is_running, n) == n < PollSecs

\* line 490: while _running and slept < poll_interval
KeepsSleeping(is_running, n) == is_running /\ n < PollSecs

SleepCheck(p) ==
    /\ proc[p].pc = "sleep_check"
    /\ Goto(p, IF KeepsSleeping(proc[p].running, proc[p].slept) THEN "sleeping" ELSE "loop")
    /\ UNCHANGED lockfile
    /\ UNCHANGED analyzeSide

\* lines 491-492: time.sleep(1) ends, slept += 1; late counts the sleeps that
\* ended after the signal, for the observers
SleepTick(p) ==
    /\ proc[p].pc = "sleeping"
    /\ proc' = [proc EXCEPT ![p].pc = "sleep_check",
                            ![p].slept = @ + 1,
                            ![p].late = IF proc[p].running THEN @ ELSE @ + 1]
    /\ UNCHANGED lockfile
    /\ UNCHANGED analyzeSide

\* lines 493-494 and 468: the finally clause calls release_lock, which looks
\* for the file
ReleaseExists(p) ==
    /\ proc[p].pc = "release"
    /\ Goto(p, IF lockfile.exists THEN "release_rm" ELSE "returned")
    /\ UNCHANGED lockfile
    /\ UNCHANGED analyzeSide

\* lines 469-472: os.remove(LOCKFILE); if the file is gone the error is logged
ReleaseRemove(p) ==
    /\ proc[p].pc = "release_rm"
    /\ proc' = [proc EXCEPT ![p].pc = "returned", ![p].removed = TRUE]
    /\ lockfile' = NoLockfile
    /\ UNCHANGED analyzeSide

\* _signal_handler (lines 436-439): SIGINT or SIGTERM reaches a process
Signal(p) ==
    /\ proc[p].pc \notin {"idle", "returned"}
    /\ proc[p].running
    /\ proc' = [proc EXCEPT ![p].running = FALSE]
    /\ UNCHANGED lockfile
    /\ UNCHANGED analyzeSide

\* the steps of process p itself
ProcStep(p) ==
    \/ AcquireExists(p)
    \/ AcquireRead(p)
    \/ AcquireProbe(p)
    \/ AcquireRemoveStale(p)
    \/ AcquireCleanup(p)
    \/ AcquireOpen(p)
    \/ AcquireWrite(p)
    \/ LoopCheck(p)
    \/ AnalyzeCall(p)
    \/ AnalyzeCycle(p)
    \/ SleepCheck(p)
    \/ SleepTick(p)
    \/ ReleaseExists(p)
    \/ ReleaseRemove(p)

\* what the lockfile can be when the first runner starts: absent, or left
\* behind by a process that is gone (whole, empty or damaged)
InitialLockfiles == {NoLockfile, PidLockfile(DeadPid), EmptyLockfile, GarbageLockfile}

InitLock ==
    /\ pc = "start"
    /\ fetchIdle
    /\ observersInit
    /\ analyzeInit
    /\ configInit
    /\ sessionInit
    /\ lockfile \in InitialLockfiles
    /\ proc = [p \in Procs |-> IdleProc]

NextLock ==
    \/ \E p \in Procs : RunStart(p)
    \/ \E p \in Procs : AcquireExists(p)
    \/ \E p \in Procs : AcquireRead(p)
    \/ \E p \in Procs : AcquireProbe(p)
    \/ \E p \in Procs : AcquireRemoveStale(p)
    \/ \E p \in Procs : AcquireCleanup(p)
    \/ \E p \in Procs : AcquireOpen(p)
    \/ \E p \in Procs : AcquireWrite(p)
    \/ \E p \in Procs : LoopCheck(p)
    \/ \E p \in Procs : AnalyzeCall(p)
    \/ \E p \in Procs : AnalyzeCycle(p)
    \/ \E p \in Procs : SleepCheck(p)
    \/ \E p \in Procs : SleepTick(p)
    \/ \E p \in Procs : ReleaseExists(p)
    \/ \E p \in Procs : ReleaseRemove(p)
    \/ \E p \in Procs : Signal(p)

SpecLock == InitLock /\ [][NextLock]_vars

\* a launched process goes on running: every call of its cycle returns
\* (analyze and the send are bounded by their timeouts and retries) and every
\* sleep ends
FairSpecLock == SpecLock /\ \A p \in Procs : WF_vars(ProcStep(p))

----------------------------------------------------------------------------
(* Properties *)

\* fetch_binance_klines has consumed the answer of the primary
PrimaryOver == pc # "start" /\ url # "binance"

\* candle acquisition failed: analyze is in, or returned from, the except
\* clause of line 216
AcquisitionFailed == pc = "fallback_price" \/ path = "fallback_price"

\* the secondary was consulted and gave no usable frame
SecondaryFailed ==
    cgCalls >= 1 /\ url # "coingecko" /\ (cgBody = NoBody \/ cgBody.n < 10)

\* C1: candle acquisition fails only if the secondary source was consulted in
\* that call and itself failed or yielded too few candles.
C1_FailsOnlyAfterSecondary == AcquisitionFailed => SecondaryFailed

\* C2: after the first 403/429/451 answer of the primary no further request
\* goes to the primary, and the secondary is invoked next.
C2_ImmediateFallback ==
    /\ refusedAt # 0 => gets["binance"] = refusedAt
    /\ refusedAt # 0 /\ PrimaryOver => cgCalls = 1

\* C3: when every answer of the primary is an HTTP 429, the secondary is
\* invoked exactly once, and if it produces at least 10 candles the call
\* returns its reshaped series (the last LIMIT rows) without raising.
C3_FallbackOn429 ==
    only429 /\ PrimaryOver =>
        /\ cgCalls = 1
        /\ cgBody.n >= 10 =>
              /\ ~AcquisitionFailed
              /\ source = "coingecko"
              /\ ~df.none
              /\ Len(df.rows) = (IF cgBody.n > 100 THEN 100 ELSE cgBody.n)
              /\ \A i \in 1..Len(df.rows) :
                    df.rows[i] = Klines(cgBody.n, cgBody.profile)[cgBody.n - Len(df.rows) + i]

C3_Witness ==
    /\ only429 /\ gets["binance"] = 3 /\ cgCalls = 1
    /\ source = "coingecko" /\ cgBody.n > 100 /\ pc = "indicators"

\* C4: once the primary has answered with a valid series of at least 3
\* candles, the secondary candle source is never invoked, whatever the later
\* steps do.
C4_NoFallbackAfterPrimary == primaryEnd = "series" => cgCalls = 0 /\ gets["coingecko"] = 0

C4_Witness ==
    /\ primaryEnd = "series" /\ pc = "done" /\ path = "postfetch_price"
    /\ gets["spot"] = 1 /\ gets["binance"] = 2

\* 2^k
RECURSIVE Pow2(_)
Pow2(k) == IF k = 0 THEN 1 ELSE 2 * Pow2(k - 1)

\* the sleeps so far are 1, 2, 4, ... and there is one between consecutive GETs
SleepsDouble ==
    /\ \A j \in 1..Len(slept) : slept[j] = Pow2(j - 1)
    /\ Len(slept) = (IF pc = "fetched" /\ Len(answers) > 0
                     THEN Len(answers) - 1 ELSE Len(answers))

\* safe_fetch returned: the last GET is the only one that succeeded, and its
\* parsed answer is what is returned
ReturnsFirstSuccess ==
    ret.kind = "return" =>
        /\ Len(answers) >= 1
        /\ answers[Len(answers)].exc = NoExc
        /\ ret.body = answers[Len(answers)].body
        /\ \A j \in 1..(Len(answers) - 1) : answers[j].exc # NoExc

\* safe_fetch raised: max_retries GETs were made, all failed, and the error of
\* the last one is raised
RaisesLastError ==
    ret.kind = "raise" =>
        /\ Len(answers) = max_retries
        /\ \A j \in 1..Len(answers) : answers[j].exc # NoExc
        /\ max_retries >= 1 => ret.exc = answers[max_retries].exc

\* no GET follows the end of the call
NoGetAfterEnd == [][pc = "fetched" => gets' = gets /\ answers' = answers]_vars

\* C5: safe_fetch always terminates; it returns the parsed response of the
\* first successful attempt and makes no attempt after it; otherwise it makes
\* exactly max_retries attempts, sleeping 1, 2, 4, ... between consecutive
\* attempts and not after the last, and raises the last attempt's error.
C5_SafeFetchContract ==
    /\ [](Len(answers) <= max_retries /\ SleepsDouble /\ ReturnsFirstSuccess
          /\ RaisesLastError /\ (pc = "fetched" <=> ret.kind # "none"))
    /\ NoGetAfterEnd
    /\ <>(pc = "fetched")

C5_Witness ==
    /\ pc = "fetched" /\ ret.kind = "raise" /\ max_retries = 4
    /\ slept = <<1, 2, 4>> /\ Len(answers) = 4 /\ ret.exc = HTTPError(500)

\* a feed was asked and delivered nothing
FundingFailed == gets["funding"] > 0 /\ feeds.funding.none
FearGreedFailed == gets["fng"] > 0 /\ feeds.fear_greed.none

\* the verdict texts that say NEUTRAL
NeutralVerdicts ==
    {"NEUTRAL / WAIT", "NEUTRAL / WAIT (no price)", "NEUTRAL / WAIT (fallback price)",
     "NEUTRAL / WAIT (post-fetch fallback)", "NEUTRAL / WAIT (error)"}

\* the spot-price GET was answered with a price
SpotSucceeded == spot.exc = NoExc /\ spot.body.type = "price"

\* C6: when both market data sources fail entirely, analyze returns a degraded
\* record: score 0.5, a NEUTRAL verdict, all six signals 0.5, and the spot
\* price if its fetch succeeds, null otherwise.
C6_DegradedWhenBothFail ==
    pc = "done" /\ primaryEnd = "raised" /\ cgBody = NoBody =>
        /\ result.score.num * 2 = result.score.den
        /\ result.verdict \in NeutralVerdicts
        /\ DOMAIN result.signals = Categories
        /\ \A k \in Categories : result.signals[k] * 2 = SignalOne
        /\ result.price = (IF SpotSucceeded THEN Some(spot.body.v) ELSE None)

C6_Witness ==
    /\ pc = "done" /\ primaryEnd = "raised" /\ cgCalls = 1 /\ cgBody = NoBody
    /\ gets["coingecko"] = 2 /\ SpotSucceeded /\ ~result.price.none

\* C7: whatever the sources answer, analyze goes on to return a record whose
\* signals map has exactly the six keys, each value in [0,1], and whose score
\* is in [0,1].
C7_AlwaysValidRecord ==
    /\ pc # "done" => ENABLED Next
    /\ pc = "done" =>
          /\ DOMAIN result.signals = Categories
          /\ \A k \in Categories :
                result.signals[k] >= 0 /\ result.signals[k] <= SignalOne
          /\ result.score.den > 0
          /\ result.score.num >= 0 /\ result.score.num <= result.score.den

C7_Witness ==
    /\ pc = "done" /\ path = "scored" /\ source = "coingecko"
    /\ ~ind.volatility_14.nan /\ ind.volatility_14.v > VolatilityCeiling.v
    /\ FundingFailed

\* the signal of candle category k that the indicator values i give
SignalFrom(i, k) ==
    CASE k = "trend" -> TrendSignal(i.price, i.ma50, i.ma200)
      [] k = "volume" -> VolumeSignal(i.vol, i.vol7)
      [] k = "rsi" -> RsiSignal(i.rsi)
      [] k = "volatility" -> VolatilitySignal(i.volatility_14)

\* C8: an exception raised while computing the indicator of one category is
\* isolated to that category: its signal becomes 0.5, the other categories keep
\* the values computed from their own inputs, and the record is not degraded.
C8_FaultIsolated ==
    pc = "done" /\ fault # "none" =>
        /\ path = "scored"
        /\ result.signals[fault] = Neutral
        /\ \A k \in IndicatorFaults \ {fault} :
              result.signals[k] = SignalFrom(IndicatorSet(df), k)

\* C9: a category whose indicator or feed is undefined has the signal 0.5.
C9_UndefinedIsNeutral ==
    pc = "done" /\ path = "scored" =>
        /\ ind.ma50.nan \/ ind.ma200.nan => result.signals["trend"] = Neutral
        /\ ind.vol7.nan => result.signals["volume"] = Neutral
        /\ ind.rsi.nan => result.signals["rsi"] = Neutral
        /\ ind.volatility_14.nan => result.signals["volatility"] = Neutral
        /\ FundingFailed => result.signals["funding"] = Neutral
        /\ FearGreedFailed => result.signals["fear_greed"] = Neutral

\* C10: with the candles acquired, a failing auxiliary feed does not stop
\* analyze, which returns a scored result; the failed feed's signal is 0.5 and
\* every other signal is the one its own input gives.
C10_FeedFailureIsLocal ==
    /\ pc = "fetched" /\ url \in {"funding", "fng"} /\ DeliveredBy(ret).none =>
          ENABLED (FundingFetched \/ FearGreedFetched)
    /\ pc = "done" /\ (FundingFailed \/ FearGreedFailed) =>
        /\ path = "scored"
        /\ DOMAIN result.signals = Categories
        /\ FundingFailed => result.signals["funding"] * 2 = SignalOne
        /\ FearGreedFailed => result.signals["fear_greed"] * 2 = SignalOne
        /\ ~FundingFailed => result.signals["funding"] = FundingSignal(feeds.funding)
        /\ ~FearGreedFailed =>
              result.signals["fear_greed"] = FearGreedSignal(feeds.fear_greed)
        /\ \A k \in IndicatorFaults : result.signals[k] = SignalFrom(ind, k)

C10_Witness ==
    /\ pc = "done" /\ path = "scored"
    /\ FundingFailed /\ gets["funding"] = 2 /\ ~feeds.fear_greed.none
    /\ result.signals["trend"] = SignalOne /\ result.signals["funding"] = Neutral
    /\ result.signals["fear_greed"] = SignalOne

\* C11: on the scored path the score is the sum over all six categories of
\* signal times weight (1, 1, 1, 0.5, 0.5, 0.5, here in halves) over the sum
\* of the six weights, whatever signals are at the neutral default, and it
\* lies in [0,1].
C11_ScoreIsWeightedMean ==
    pc = "done" /\ path = "scored" =>
        LET s == result.signals IN
        /\ DOMAIN s = {"trend", "volume", "rsi", "funding", "fear_greed", "volatility"}
        /\ result.score.num =
              2 * s["trend"] + 2 * s["volume"] + 2 * s["rsi"]
              + s["funding"] + s["fear_greed"] + s["volatility"]
        /\ result.score.den = (2 + 2 + 2 + 1 + 1 + 1) * 1000
        /\ result.score.num >= 0 /\ result.score.num <= result.score.den

C11_Witness ==
    /\ pc = "done" /\ path = "scored" /\ FundingFailed /\ FearGreedFailed
    /\ result.signals["funding"] = Neutral /\ result.signals["trend"] = SignalOne
    /\ result.signals["fear_greed"] = Neutral /\ result.score.num * 2 > result.score.den

\* C12: for any weight table, if all six signals are 0.5 the aggregated score
\* is exactly 0.5 and the verdict is NEUTRAL.
C12_AllNeutralScoresHalf ==
    pc = "done" /\ path = "scored" /\ (\A k \in Categories : result.signals[k] = 500) =>
        /\ result.score.num * 2 = result.score.den
        /\ result.verdict = "NEUTRAL / WAIT"

C12_Witness ==
    /\ pc = "done" /\ path = "scored" /\ result.signals = AllNeutral
    /\ weights = [k \in Categories |-> IF k = "funding" THEN -3 ELSE 0]
    /\ result.score.num * 2 = result.score.den

\* the three kinds of verdict text
BuyVerdicts == {"BUY (probabilistic)"}
SellVerdicts == {"SELL (probabilistic)"}

\* C13: in every record analyze returns, scored or degraded, the verdict is a
\* BUY exactly when score >= 0.6, a SELL exactly when score <= 0.4, and a
\* NEUTRAL otherwise.
C13_VerdictAgreesWithScore ==
    pc = "done" =>
        LET n == result.score.num
            d == result.score.den
        IN /\ d > 0
           /\ result.verdict \in BuyVerdicts \cup SellVerdicts \cup NeutralVerdicts
           /\ result.verdict \in BuyVerdicts <=> 10 * n >= 6 * d
           /\ result.verdict \in SellVerdicts <=> 10 * n <= 4 * d
           /\ result.verdict \in NeutralVerdicts <=> (10 * n > 4 * d /\ 10 * n < 6 * d)

C13_Witness ==
    /\ pc = "done" /\ path = "scored" /\ weights = WEIGHTS
    /\ 10 * result.score.num = 6 * result.score.den
    /\ result.verdict = "BUY (probabilistic)"

\* the primary answered with 300 candles whose closes rise monotonically from
\* 100 to 400 at a flat volume of 1000
RisingMarket ==
    /\ source = "binance" /\ ~df.none /\ Len(df.rows) = 300
    /\ df.rows[1].close = 100 /\ df.rows[300].close = 400
    /\ \A i \in 1..299 : df.rows[i].close < df.rows[i + 1].close
    /\ \A i \in 1..300 : df.rows[i].volume = 1000

\* C14: on the rising market, with a funding rate of 0.0 and a fear/greed
\* value of 50, analyze yields trend 1.0, an rsi signal above 0.9, funding
\* 0.5, fear_greed 0.5, volume 0.5, a score of at most 1.0 and the verdict BUY.
C14_RisingMarketIsBuy ==
    pc = "done" /\ fault = "none" /\ feeds.funding = Some(0) /\ feeds.fear_greed = Some(50)
        /\ RisingMarket =>
        /\ result.signals["trend"] = 1000
        /\ result.signals["rsi"] > 900
        /\ result.signals["funding"] = 500
        /\ result.signals["fear_greed"] = 500
        /\ result.signals["volume"] = 500
        /\ result.score.num <= result.score.den
        /\ result.verdict = "BUY (probabilistic)"

\* C15: analyze keeps no state between invocations: two successive calls
\* given identical responses from all data sources return identical price,
\* score, verdict and signals, whatever the invocation before them returned.
C15_Deterministic ==
    pc = "done" /\ calls = 2 =>
        /\ result.price = previous.price
        /\ result.score = previous.score
        /\ result.verdict = previous.verdict
        /\ result.signals = previous.signals

C15_Witness ==
    /\ pc = "done" /\ calls = 2 /\ path = "scored" /\ source = "coingecko"
    /\ gets["funding"] = 2 /\ result.signals["funding"] = 0
    /\ result = previous /\ result.verdict # "NEUTRAL / WAIT"

\* process p is past a successful acquire_lock and before its release_lock
InLoop(p) == proc[p].pc \in {"loop", "analyze", "in_analyze", "sleep_check", "sleeping"}

\* C16: at most one instance runs the polling loop at a time: no two live
\* processes are both past a successful acquire_lock and before their
\* release_lock.
C16_OneInstance == \A p, q \in Procs : InLoop(p) /\ InLoop(q) => p = q

\* the signal has reached process p
Signalled(p) == proc[p].pc # "idle" /\ ~proc[p].running

\* the handler only sets the flag: the step in progress goes on
SignalInterruptsNothing ==
    [][\A p \in Procs :
          proc[p].running /\ ~proc'[p].running =>
              proc'[p].pc = proc[p].pc /\ proc'[p].slept = proc[p].slept]_vars

\* no analyze call begins once the signal is received
NoAnalyzeCallAfterSignal ==
    [][\A p \in Procs :
          Signalled(p) /\ proc'[p].pc = "in_analyze" => proc[p].pc = "in_analyze"]_vars

\* no loop test lets a new cycle in once the signal is received
NoNewCycleAfterSignal ==
    [][\A p \in Procs :
          Signalled(p) /\ proc'[p].pc = "analyze" => proc[p].pc = "analyze"]_vars

\* at most one sleep of the sleep loop ends after the signal
OneTickAfterSignal == [](\A p \in Procs : proc[p].late <= 1)

\* a signalled run returns
SignalledRunReturns == \A p \in Procs : Signalled(p) ~> proc[p].pc = "returned"

\* a run that had the lock returns with the lockfile removed
ReturnsWithoutLockfile ==
    [][\A p \in Procs :
          proc[p].pc \in {"release", "release_rm"} /\ proc'[p].pc = "returned" =>
              ~lockfile'.exists]_vars

\* C17 (as stated): a termination signal never interrupts the analyze/send
\* cycle in progress; once it is received run starts no new analyze call,
\* leaves its sleep loop within one 1-second tick, eventually returns, and has
\* removed the lockfile when it returns.
C17_SignalBetweenSteps ==
    /\ SignalInterruptsNothing
    /\ NoAnalyzeCallAfterSignal
    /\ OneTickAfterSignal
    /\ SignalledRunReturns
    /\ ReturnsWithoutLockfile

\* C17 (amended): a termination signal never interrupts the step in progress;
\* once it is received no test of the loop condition lets a new cycle in (only
\* a cycle whose test had passed before the signal still calls analyze), run
\* leaves its sleep loop within one 1-second tick, eventually returns, and has
\* removed the lockfile when it returns.
C17_SignalAtLoopTests ==
    /\ SignalInterruptsNothing
    /\ NoNewCycleAfterSignal
    /\ OneTickAfterSignal
    /\ SignalledRunReturns
    /\ ReturnsWithoutLockfile

C17_Witness ==
    \E p \in Procs :
        /\ proc[p].pc = "returned" /\ Signalled(p) /\ proc[p].late = 1
        /\ proc[p].slept = 1 /\ ~lockfile.exists

\* C18: with a defined non-zero 7-period average, a volume of 1.5 times the
\* average or more yields 1.0, a volume below 0.8 times the average yields
\* 0.0, every ratio in [0.8, 1.5) yields 0.5; an undefined or zero average
\* yields 0.5.  (ind.vol7 holds the sum of the seven volumes.)
C18_VolumeBoundaries ==
    "volume" \in DOMAIN signals /\ fault = "none" =>
        LET v == 7 * ind.vol
            a == ind.vol7
        IN signals["volume"] =
              (IF a.nan \/ a.v = 0 THEN 500
               ELSE IF 10 * v >= 15 * a.v THEN 1000
               ELSE IF 10 * v < 8 * a.v THEN 0
               ELSE 500)

C18_Witness ==
    /\ pc = "done" /\ path = "scored" /\ ~ind.vol7.nan /\ ind.vol7.v > 0
    /\ 10 * 7 * ind.vol = 15 * ind.vol7.v
    /\ result.signals["volume"] = 1000

\* the smoothed loss average (ma_down, line 158) of the latest candle
LossEma(frame) ==
    LET rows == SortIndex(frame.rows)
        n == Len(rows)
        delta == Diff([i \in 1..n |-> rows[i].close])
    IN Ewm([i \in 1..n |-> ClipDown(delta[i])], RSI_PERIOD, n)

IndicatorsComputed == df # NoneFrame /\ ind # NoIndicators /\ fault = "none"

\* C19: whenever the smoothed loss average of the latest candle is zero, the
\* RSI computed for it is 100, a series whose closes are all equal included.
C19_ZeroLossIsRsi100 ==
    IndicatorsComputed /\ LossEma(df) = Num(0) => ind.rsi = Num(100 * 100)

\* the closes of a frame in index order
ClosesOf(frame) ==
    LET rows == SortIndex(frame.rows) IN [i \in 1..Len(rows) |-> rows[i].close]

StrictlyIncreasing(c) == \A i \in 2..Len(c) : c[i - 1] < c[i]

StrictlyDecreasing(c) == \A i \in 2..Len(c) : c[i - 1] > c[i]

\* C20: for a strictly increasing close series longer than the RSI period the
\* RSI of the last candle is 100; for a strictly decreasing one it is 0.
C20_MonotoneRsi ==
    IndicatorsComputed /\ Len(df.rows) > RSI_PERIOD =>
        /\ StrictlyIncreasing(ClosesOf(df)) => ind.rsi = Num(100 * 100)
        /\ StrictlyDecreasing(ClosesOf(df)) => ind.rsi = Num(0)

C20_Witness ==
    /\ pc = "done" /\ path = "scored" /\ IndicatorsComputed
    /\ Len(df.rows) > RSI_PERIOD
    /\ StrictlyIncreasing(ClosesOf(df))
    /\ ind.rsi = Num(100 * 100)
    /\ LossEma(df) = Num(0)

\* y is what an inverted, clamped map with thresholds lo < hi gives for the
\* input x: 0.0 at or above hi, 1.0 at or below lo, 0.5 at the midpoint, and
\* between the thresholds no more than F gives for a smaller input of the
\* grid and no less than F gives for a larger one
InvertedAt(y, x, lo, hi, F(_), grid) ==
    /\ x >= hi => y = 0
    /\ x <= lo => y = 1000
    /\ 2 * x = lo + hi => y = 500
    /\ y >= 0 /\ y <= 1000
    /\ \A z \in grid : /\ z <= x => F(z) >= y
                       /\ z >= x => F(z) <= y

RsiAt(z) == RsiSignal(Num(z))

FundingAt(z) == FundingSignal(Some(z))

FearGreedAt(z) == FearGreedSignal(Some(z))

\* C21: the rsi, funding and fear_greed signals are 0.0 for every input at or
\* above the upper threshold (70, +0.0005, 75), 1.0 for every input at or
\* below the lower threshold (30, -0.0005, 25), non-increasing in the input in
\* between, and 0.5 at the midpoint (RSI 50, funding 0.0, fear/greed 50).
C21_InvertedMaps ==
    "fear_greed" \in DOMAIN signals /\ fault = "none" =>
        /\ ~ind.rsi.nan =>
              InvertedAt(signals["rsi"], ind.rsi.v, 3000, 7000, RsiAt,
                         {250 * k : k \in 0..40} \cup {2999, 3001, 6999, 7001})
        /\ ~feeds.funding.none =>
              InvertedAt(signals["funding"], feeds.funding.v, -500, 500, FundingAt,
                         {50 * k - 700 : k \in 0..28} \cup {-501, -499, 499, 501})
        /\ ~feeds.fear_greed.none =>
              InvertedAt(signals["fear_greed"], feeds.fear_greed.v, 25, 75,
                         FearGreedAt, 0..100)

C21_Witness ==
    /\ pc = "done" /\ path = "scored" /\ fault = "none"
    /\ ind.rsi = Num(4000) /\ result.signals["rsi"] = 750
    /\ feeds.funding = Some(250) /\ result.signals["funding"] = 250
    /\ feeds.fear_greed = Some(50) /\ result.signals["fear_greed"] = 500

\* C22: with LIMIT = 100 and a slow window of 200, whenever analyze holds at
\* most LIMIT candles the slow moving average of the latest candle is
\* undefined, and the trend signal of the result is 0.5, whatever the prices.
C22_TrendNeutralWithinLimit ==
    /\ LIMIT < MA_SLOW
    /\ pc = "done" /\ (df = NoneFrame \/ Len(df.rows) <= LIMIT) =>
          /\ result.signals["trend"] = 500
          /\ path = "scored" => ind.ma200 = NaN

C22_Witness ==
    /\ pc = "done" /\ path = "scored"
    /\ Len(df.rows) >= MA_FAST /\ Len(df.rows) <= LIMIT
    /\ ~ind.ma50.nan /\ ind.price * PriceUnits > ind.ma50.v
    /\ ind.ma200 = NaN
    /\ result.signals["trend"] = 500

TotalGets ==
    gets["binance"] + gets["coingecko"] + gets["spot"] + gets["funding"] + gets["fng"]

RequestBounds ==
    /\ gets["binance"] <= 3
    /\ gets["coingecko"] <= 2
    /\ gets["spot"] <= 1
    /\ gets["funding"] <= 2
    /\ gets["fng"] <= 2
    /\ TotalGets <= 9

NoFeedOnDegradedPath ==
    path = "fallback_price" \/ pc = "fallback_price" =>
        gets["funding"] = 0 /\ gets["fng"] = 0

\* C23: every analyze invocation terminates, having sent at most 3 GETs to the
\* primary candle endpoint, 2 to the secondary, 1 to the spot price, 2 to the
\* funding and 2 to the fear/greed endpoint (at most 9 in total), and none to
\* the funding and fear/greed endpoints on the degraded path.
C23_BoundedRequests ==
    /\ [](RequestBounds /\ NoFeedOnDegradedPath)
    /\ <>(pc = "done")

C23_Witness ==
    /\ pc = "done"
    /\ gets["binance"] = 3 /\ gets["coingecko"] = 2
    /\ gets["funding"] = 2 /\ gets["fng"] = 2
    /\ TotalGets = 9

Refused(p) == proc[p].acquired = "false"

Holder(p) == proc[p].acquired = "true"

LoopPositions == {"loop", "analyze", "in_analyze", "sleep_check", "sleeping"}

CycleRaised(p) == proc[p].last \in {"analyze_raised", "send_raised"}

\* a process whose acquire_lock returned False has not called analyze, sent
\* nothing and removed nothing; only a holder is in the loop or the release;
\* a holder that has received no signal is in the loop, and after a cycle
\* that raised it is in its sleep loop or back at the loop test
OwnershipInvariant ==
    \A p \in Procs :
        /\ Refused(p) =>
              /\ proc[p].pc = "returned"
              /\ ~proc[p].called /\ ~proc[p].removed /\ proc[p].last = "none"
        /\ proc[p].called \/ proc[p].last # "none"
              \/ proc[p].pc \in LoopPositions \cup {"release", "release_rm"}
                 => Holder(p)
        /\ Holder(p) /\ proc[p].running => proc[p].pc \in LoopPositions
        /\ CycleRaised(p) /\ proc[p].running
              => proc[p].pc \in {"sleep_check", "sleeping", "loop"}

\* a refused process does nothing more; a holder stays a holder, leaves no
\* lockfile behind when run returns, and does not touch the lockfile while it
\* has received no signal
OwnershipStep ==
    \A p \in Procs :
        /\ Refused(p) => proc'[p] = proc[p]
        /\ Holder(p) => proc'[p].acquired = "true"
        /\ Holder(p) /\ proc[p].pc # "returned" /\ proc'[p].pc = "returned"
              => ~lockfile'.exists
        /\ Holder(p) /\ proc[p].running /\ proc'[p] # proc[p] => lockfile' = lockfile

\* C24: a process whose acquire_lock returned False never calls analyze, never
\* sends a message and never removes the lockfile; a process whose
\* acquire_lock returned True removes the lockfile on every exit path of run,
\* and an exception raised by analyze or by the sending neither ends the
\* polling loop nor releases the lock while no signal has been received.
C24_OwnershipDiscipline == []OwnershipInvariant /\ [][OwnershipStep]_vars

C24_Witness ==
    \E p, q \in Procs :
        /\ Refused(q)
        /\ Holder(p) /\ proc[p].running /\ proc[p].last = "analyze_raised"
        /\ proc[p].pc = "sleeping" /\ proc[p].slept = 1
        /\ lockfile = PidLockfile(p)

====
